---- MODULE Spec2Model ----
(***************************************************************************)
(* prmon: a Poller fetches two collections of pull requests on a timer,    *)
(* decides with a ChangeChecker whether they changed, and notifies the     *)
(* calling code over two unbuffered channels; the tui app dispatches the   *)
(* notifications into a Controller.                                        *)
(*                                                                         *)
(* Two compositions are modelled over the same variables:                  *)
(*   Spec     Poller.Poll together with a receiver that runs the dispatch  *)
(*            loop of app() in its own goroutine (the package github seen  *)
(*            by calling code that receives from its channels);            *)
(*   AppSpec  app() as written in cmd/tui: one goroutine calls Poll and    *)
(*            enters the dispatch loop only after Poll has returned.       *)
(***************************************************************************)
EXTENDS Integers, Sequences, FiniteSets, TLC

\* ---------------------------------------------------------------- bounds
\* Longest list of issues one API call returns.
MaxLen == 1
\* Number of timer ticks explored.
MaxTicks == 2

\* ------------------------------------------------------------- entities
\* A PullRequestSummary; NewPullRequestFromAPI leaves ReviewerCount at zero.
PullRequestSummary(repository, id, status, draft, title) ==
    [Draft |-> draft, Author |-> "octocat", Title |-> title, Repository |-> repository,
     ID |-> id, ReviewerCount |-> 0, Status |-> status, OpenedAt |-> 1,
     URL |-> "https://github.com/o/" \o repository \o "/pull/" \o id]

PROpen == PullRequestSummary("a", "1", "open", FALSE, "t")
PRMerged == PullRequestSummary("a", "1", "merged", FALSE, "t")
PRMine == PullRequestSummary("b", "2", "open", TRUE, "t")
\* PRMine after an edit of its title only.
PRMineRetitled == PullRequestSummary("b", "2", "open", TRUE, "u")

\* Pull requests the "all" filter can return, and those the "created"
\* filter can return.
AssignedPool == {PROpen, PRMerged}
CreatedPool == {PRMine}

SeqsUpTo(S, n) == UNION {[1..k -> S] : k \in 0..n}

\* One element of the answer of Issues.List, with the outcome of the
\* PullRequests.Get call made for it.
ApiIssues(pool) == [isPullRequest : BOOLEAN, detailOk : BOOLEAN, pr : pool]

\* The zero value of time.Time; the clock starts after it.
ZeroTime == 0

\* ---------------------------------------------------------- change_checker
\* versionKey with a format that has no separators.
versionKeyNoSeparator(pr) ==
    pr.Repository \o pr.ID \o pr.Status \o (IF pr.Draft THEN "Y" ELSE "N")

versionKey(pr) ==
    pr.Repository \o ":" \o pr.ID \o ":" \o pr.Status \o ":" \o (IF pr.Draft THEN "Y" ELSE "N")

VersionKeys(items) == [idx \in 1..Len(items) |-> versionKey(items[idx])]

\* The closure DEFAULT_KEY_CHECKER returns: the captured keyList and the map
\* built from it.
DEFAULT_KEY_CHECKER(keyList) ==
    [keyList |-> keyList, keyPresentMap |-> {keyList[i] : i \in 1..Len(keyList)}]

\* keyChecker without its first check (the lengths).
keyCheckerNoLength(closure, newKeylist) ==
    \A i \in 1..Len(newKeylist) : newKeylist[i] \in closure.keyPresentMap

\* Calling that closure on newKeylist: TRUE means "keys match".
keyChecker(closure, newKeylist) ==
    /\ Len(newKeylist) = Len(closure.keyList)
    /\ \A i \in 1..Len(newKeylist) : newKeylist[i] \in closure.keyPresentMap

\* The closure SIMPLE_KEY_CHECKER returns captures the list only.
SIMPLE_KEY_CHECKER(keylist) == [keylist |-> keylist]

\* simpleKeyChecker comparing each key with the first of the new list.
simpleKeyCheckerFirstOnly(closure, newKeylist) ==
    /\ Len(newKeylist) = Len(closure.keylist)
    /\ \A idx \in 1..Len(closure.keylist) : closure.keylist[idx] = newKeylist[1]

\* Calling that closure on newKeylist.
simpleKeyChecker(closure, newKeylist) ==
    /\ Len(newKeylist) = Len(closure.keylist)
    /\ \A idx \in 1..Len(closure.keylist) : closure.keylist[idx] = newKeylist[idx]

\* The values a keyCheckerGen can take; calling a nil func panics.
KeyCheckerGens == {"nil", "DEFAULT_KEY_CHECKER", "SIMPLE_KEY_CHECKER"}
NilCall == [panic |-> "call of nil func"]

callKeyCheckerGen(gen, keys) ==
    CASE gen = "DEFAULT_KEY_CHECKER" -> DEFAULT_KEY_CHECKER(keys)
      [] gen = "SIMPLE_KEY_CHECKER" -> SIMPLE_KEY_CHECKER(keys)
      [] OTHER -> NilCall

callKeyChecker(closure, newKeylist) ==
    IF "keyPresentMap" \in DOMAIN closure
    THEN keyChecker(closure, newKeylist)
    ELSE simpleKeyChecker(closure, newKeylist)

\* NewChangeChecker without the nil test: a nil generator is kept and called.
NewChangeCheckerNilKept(keys, gen) ==
    [genKeyChecker |-> gen, keyChecker |-> callKeyCheckerGen(gen, keys)]

\* NewChangeChecker that starts from an empty baseline.
NewChangeCheckerEmptyBaseline(keys, gen) ==
    LET g == IF gen = "nil" THEN "DEFAULT_KEY_CHECKER" ELSE gen
    IN  [genKeyChecker |-> g, keyChecker |-> callKeyCheckerGen(g, <<>>)]

NewChangeChecker(keys, gen) ==
    LET g == IF gen = "nil" THEN "DEFAULT_KEY_CHECKER" ELSE gen
    IN  [genKeyChecker |-> g, keyChecker |-> callKeyCheckerGen(g, keys)]

\* HasChanged has a value receiver: `cache` is a copy of the ChangeChecker,
\* so the assignment to cache.keyChecker is lost when the method returns.
\* `checker` is the ChangeChecker the caller holds afterwards, `local` the
\* copy as it was when the method returned.
HasChanged(cache, keyList) ==
    IF callKeyChecker(cache.keyChecker, keyList)
    THEN [changed |-> FALSE, checker |-> cache, local |-> cache]
    ELSE [changed |-> TRUE, checker |-> cache,
          local |-> [cache EXCEPT !.keyChecker = callKeyCheckerGen(cache.genKeyChecker, keyList)]]

\* The closure `get` of Poller.pullRequests, once Issues.List has answered:
\* issues that are no pull request, and pull requests whose detail call
\* fails, are left out.
get(issues) ==
    LET kept(i) == i.isPullRequest /\ i.detailOk
        sel == SelectSeq(issues, kept)
    IN  [k \in 1..Len(sel) |-> sel[k].pr]

DetailFails(issues) == \E k \in 1..Len(issues) : issues[k].isPullRequest /\ ~issues[k].detailOk

\* Table.Update: the header row is rewritten and row idx+1 is set for each
\* element; nothing is cleared, so rows beyond the new collection stay.
TableUpdate(table, rows) ==
    rows \o SubSeq(table, Len(rows) + 1, Len(table))

VARIABLES
    pc,                      \* position of Poller.Poll
    cancelled,               \* poller.ctx is done
    locked,                  \* the Poller's mutex
    now,                     \* the clock read by time.Now()
    tick,                    \* timer ticks so far
    assigned, created,       \* Items of the two collections
    assignedChecker, createdChecker,   \* their dirtyChecker
    fetchedA, fetchedC,      \* locals `assigned, created` of Poll
    haveUpdatedAssignations, haveUpdatedCreations,
    dispatch,                \* position of the goroutine's dispatch loop
    newState,                \* the tui.State being built by the loop
    assignedPRTable, createdPRTable, statusBar,   \* Controller
    \* history variables
    wroteA, wroteC,          \* tick that last wrote each collection
    readA, readC, sigTick,   \* ticks seen by the changed-data handler in progress
    tsSent, dataSent,        \* notifications delivered in this tick
    fetchFailed, detailFailed,   \* what went wrong in this tick's fetch
    sameAsPrev,              \* this tick fetched the keys of the previous fetch
    \* a ChangeChecker on its own
    gen,                     \* the keyCheckerGen given to NewChangeChecker
    baseKeys,                \* VersionKeys() of the items given to NewChangeChecker
    checker,                 \* the ChangeChecker
    argKeys, changed,        \* key list and result of the last HasChanged
    calls,                   \* HasChanged calls so far
    \* versionKey on its own
    prP, prQ,                \* two PullRequestSummary values
    keyP, keyQ,              \* their version keys, "" until derived
    \* a Table on its own
    primitive,               \* the data rows of t.Primitive, below the header
    rowCollection            \* the RowCollection given to the last Table.Update

vars == <<pc, cancelled, locked, now, tick, assigned, created, assignedChecker,
          createdChecker, fetchedA, fetchedC, haveUpdatedAssignations,
          haveUpdatedCreations, dispatch, newState, assignedPRTable,
          createdPRTable, statusBar, wroteA, wroteC, readA, readC, sigTick,
          tsSent, dataSent, fetchFailed, detailFailed, sameAsPrev,
          gen, baseKeys, checker, argKeys, changed, calls, prP, prQ, keyP, keyQ,
          primitive, rowCollection>>

checkerVars == <<gen, baseKeys, checker, argKeys, changed, calls>>

keyVars == <<prP, prQ, keyP, keyQ>>

tableVars == <<primitive, rowCollection>>

unitVars == <<checkerVars, keyVars, tableVars>>

pollerVars == <<pc, locked, now, tick, assigned, created, assignedChecker,
                createdChecker, fetchedA, fetchedC, haveUpdatedAssignations,
                haveUpdatedCreations, wroteA, wroteC, tsSent, dataSent,
                fetchFailed, detailFailed, sameAsPrev>>

dispatchVars == <<dispatch, newState, assignedPRTable, createdPRTable, statusBar,
                  readA, readC, sigTick>>

EmptyState == [Assigned |-> <<>>, Created |-> <<>>, LastSync |-> ZeroTime]

\* NewPoller followed by NewController: both collections hold the first
\* fetch, each ChangeChecker is built from its keys, the tables and the
\* status bar show that state.
PollerInit(d, assignedPool, createdPool) ==
    /\ pc = "new"
    /\ cancelled = FALSE
    /\ locked = FALSE
    /\ now = ZeroTime + 1
    /\ tick = 0
    /\ assigned \in SeqsUpTo(assignedPool, MaxLen)
    /\ created \in SeqsUpTo(createdPool, MaxLen)
    /\ assignedChecker = NewChangeChecker(VersionKeys(assigned), "nil")
    /\ createdChecker = NewChangeChecker(VersionKeys(created), "nil")
    /\ fetchedA = <<>>
    /\ fetchedC = <<>>
    /\ haveUpdatedAssignations = FALSE
    /\ haveUpdatedCreations = FALSE
    /\ dispatch = d
    /\ newState = EmptyState
    /\ assignedPRTable = TableUpdate(<<>>, assigned)
    /\ createdPRTable = TableUpdate(<<>>, created)
    /\ statusBar = now
    /\ wroteA = 0
    /\ wroteC = 0
    /\ readA = 0
    /\ readC = 0
    /\ sigTick = 0
    /\ tsSent = 0
    /\ dataSent = 0
    /\ fetchFailed = FALSE
    /\ detailFailed = FALSE
    /\ sameAsPrev = FALSE

\* No ChangeChecker of its own is in use.
CheckerRest ==
    /\ gen = "nil"
    /\ baseKeys = <<>>
    /\ checker = NewChangeChecker(<<>>, "nil")
    /\ argKeys = <<>>
    /\ changed = FALSE
    /\ calls = 0

\* No version key is being derived on its own.
KeyRest ==
    /\ prP = PROpen
    /\ prQ = PROpen
    /\ keyP = ""
    /\ keyQ = ""

\* No Table is being updated on its own.
TableRest ==
    /\ primitive = <<>>
    /\ rowCollection = <<>>

InitWith(d) ==
    /\ PollerInit(d, AssignedPool, CreatedPool)
    /\ CheckerRest
    /\ KeyRest
    /\ TableRest

Init == InitWith("select")

Alive == pc # "panicked"

\* ------------------------------------------------------------ Poller.Poll
PollCalled ==
    /\ pc = "new"
    /\ pc' = "select"
    /\ UNCHANGED <<cancelled, locked, now, tick, assigned, created, assignedChecker,
                   createdChecker, fetchedA, fetchedC, haveUpdatedAssignations,
                   haveUpdatedCreations, wroteA, wroteC, tsSent, dataSent,
                   fetchFailed, detailFailed, sameAsPrev>>
    /\ UNCHANGED dispatchVars
    /\ UNCHANGED unitVars

\* TimerElapsed with the timer case taken although the context is done.
TimerElapsedIgnoringCtx ==
    /\ pc = "select"
    /\ tick < MaxTicks
    /\ pc' = "getAssigned"
    /\ tick' = tick + 1
    /\ now' = now + 1
    /\ tsSent' = 0
    /\ dataSent' = 0
    /\ fetchFailed' = FALSE
    /\ detailFailed' = FALSE
    /\ sameAsPrev' = FALSE
    /\ UNCHANGED <<cancelled, locked, assigned, created, assignedChecker, createdChecker,
                   fetchedA, fetchedC, haveUpdatedAssignations, haveUpdatedCreations,
                   wroteA, wroteC>>
    /\ UNCHANGED dispatchVars
    /\ UNCHANGED unitVars

\* case <-time.After(pauseInterval): the interval is a positive number of
\* minutes, so a select entered (or woken) with the context done takes the
\* ctx.Done() case.
TimerElapsed ==
    /\ pc = "select"
    /\ ~cancelled
    /\ tick < MaxTicks
    /\ pc' = "getAssigned"
    /\ tick' = tick + 1
    /\ now' = now + 1
    /\ tsSent' = 0
    /\ dataSent' = 0
    /\ fetchFailed' = FALSE
    /\ detailFailed' = FALSE
    /\ sameAsPrev' = FALSE
    /\ UNCHANGED <<cancelled, locked, assigned, created, assignedChecker, createdChecker,
                   fetchedA, fetchedC, haveUpdatedAssignations, haveUpdatedCreations,
                   wroteA, wroteC>>
    /\ UNCHANGED dispatchVars
    /\ UNCHANGED unitVars

\* case <-poller.ctx.Done(): return
PollCtxDone ==
    /\ pc = "select"
    /\ cancelled
    /\ pc' = "returned"
    /\ UNCHANGED <<cancelled, locked, now, tick, assigned, created, assignedChecker,
                   createdChecker, fetchedA, fetchedC, haveUpdatedAssignations,
                   haveUpdatedCreations, wroteA, wroteC, tsSent, dataSent,
                   fetchFailed, detailFailed, sameAsPrev>>
    /\ UNCHANGED dispatchVars
    /\ UNCHANGED unitVars

\* get(..., assignedFilterQuery) answers.
GetAssignedFrom(pool) ==
    /\ pc = "getAssigned"
    /\ \E issues \in SeqsUpTo(ApiIssues(pool), MaxLen) :
          /\ fetchedA' = get(issues)
          /\ detailFailed' = DetailFails(issues)
    /\ pc' = "getCreated"
    /\ UNCHANGED <<cancelled, locked, now, tick, assigned, created, assignedChecker,
                   createdChecker, fetchedC, haveUpdatedAssignations,
                   haveUpdatedCreations, wroteA, wroteC, tsSent, dataSent,
                   fetchFailed, sameAsPrev>>
    /\ UNCHANGED dispatchVars
    /\ UNCHANGED unitVars

GetAssigned == GetAssignedFrom(AssignedPool)

\* GetCreated with the timestamp send left out.
GetCreatedNoTimestamp ==
    /\ pc = "getCreated"
    /\ \E issues \in SeqsUpTo(ApiIssues(CreatedPool), MaxLen) :
          /\ fetchedC' = get(issues)
          /\ detailFailed' = (detailFailed \/ DetailFails(issues))
          /\ sameAsPrev' = (/\ VersionKeys(fetchedA) = VersionKeys(assigned)
                            /\ VersionKeys(get(issues)) = VersionKeys(created))
    /\ pc' = "lock"
    /\ UNCHANGED <<cancelled, locked, now, tick, assigned, created, assignedChecker,
                   createdChecker, fetchedA, haveUpdatedAssignations,
                   haveUpdatedCreations, wroteA, wroteC, tsSent, dataSent,
                   fetchFailed>>
    /\ UNCHANGED dispatchVars
    /\ UNCHANGED unitVars

\* get(..., createdFilterQuery) answers; pullRequests returns both lists.
GetCreatedFrom(pool) ==
    /\ pc = "getCreated"
    /\ \E issues \in SeqsUpTo(ApiIssues(pool), MaxLen) :
          /\ fetchedC' = get(issues)
          /\ detailFailed' = (detailFailed \/ DetailFails(issues))
          /\ sameAsPrev' = (/\ VersionKeys(fetchedA) = VersionKeys(assigned)
                            /\ VersionKeys(get(issues)) = VersionKeys(created))
    /\ pc' = "sendTimestamp"
    /\ UNCHANGED <<cancelled, locked, now, tick, assigned, created, assignedChecker,
                   createdChecker, fetchedA, haveUpdatedAssignations,
                   haveUpdatedCreations, wroteA, wroteC, tsSent, dataSent,
                   fetchFailed>>
    /\ UNCHANGED dispatchVars
    /\ UNCHANGED unitVars

GetCreated == GetCreatedFrom(CreatedPool)

\* ListFails with the error swallowed: get returns the empty collection it
\* was given and the tick goes on.
ListFailsSwallowed ==
    /\ pc \in {"getAssigned", "getCreated"}
    /\ fetchFailed' = TRUE
    /\ IF pc = "getAssigned"
       THEN /\ fetchedA' = <<>>
            /\ fetchedC' = fetchedC
            /\ pc' = "getCreated"
       ELSE /\ fetchedC' = <<>>
            /\ fetchedA' = fetchedA
            /\ pc' = "sendTimestamp"
    /\ UNCHANGED <<cancelled, locked, now, tick, assigned, created, assignedChecker,
                   createdChecker, haveUpdatedAssignations,
                   haveUpdatedCreations, wroteA, wroteC, tsSent, dataSent,
                   detailFailed, sameAsPrev>>
    /\ UNCHANGED dispatchVars
    /\ UNCHANGED unitVars

\* Issues.List returns an error for either filter: panic(err), the process dies.
ListFails ==
    /\ pc \in {"getAssigned", "getCreated"}
    /\ fetchFailed' = TRUE
    /\ pc' = "panicked"
    /\ UNCHANGED <<cancelled, locked, now, tick, assigned, created, assignedChecker,
                   createdChecker, fetchedA, fetchedC, haveUpdatedAssignations,
                   haveUpdatedCreations, wroteA, wroteC, tsSent, dataSent,
                   detailFailed, sameAsPrev>>
    /\ UNCHANGED dispatchVars
    /\ UNCHANGED unitVars

\* poller.Lock()
Lock ==
    /\ pc = "lock"
    /\ ~locked
    /\ locked' = TRUE
    /\ pc' = "updateAssigned"
    /\ UNCHANGED <<cancelled, now, tick, assigned, created, assignedChecker,
                   createdChecker, fetchedA, fetchedC, haveUpdatedAssignations,
                   haveUpdatedCreations, wroteA, wroteC, tsSent, dataSent,
                   fetchFailed, detailFailed, sameAsPrev>>
    /\ UNCHANGED dispatchVars
    /\ UNCHANGED unitVars

\* haveUpdatedAssignations := poller.AssignedPullRequests.Update(assigned)
\* Update that stores the new items only when the checker says "changed".
UpdateAssignedKeepIfUnchanged ==
    /\ pc = "updateAssigned"
    /\ LET r == HasChanged(assignedChecker, VersionKeys(fetchedA))
       IN  /\ haveUpdatedAssignations' = r.changed
           /\ assignedChecker' = r.checker
           /\ assigned' = IF r.changed THEN fetchedA ELSE assigned
    /\ wroteA' = tick
    /\ pc' = "updateCreated"
    /\ UNCHANGED <<cancelled, locked, now, tick, created, createdChecker, fetchedA,
                   fetchedC, haveUpdatedCreations, wroteC, tsSent, dataSent,
                   fetchFailed, detailFailed, sameAsPrev>>
    /\ UNCHANGED dispatchVars
    /\ UNCHANGED unitVars

UpdateAssigned ==
    /\ pc = "updateAssigned"
    /\ assigned' = fetchedA
    /\ LET r == HasChanged(assignedChecker, VersionKeys(fetchedA))
       IN  /\ haveUpdatedAssignations' = r.changed
           /\ assignedChecker' = r.checker
    /\ wroteA' = tick
    /\ pc' = "updateCreated"
    /\ UNCHANGED <<cancelled, locked, now, tick, created, createdChecker, fetchedA,
                   fetchedC, haveUpdatedCreations, wroteC, tsSent, dataSent,
                   fetchFailed, detailFailed, sameAsPrev>>
    /\ UNCHANGED dispatchVars
    /\ UNCHANGED unitVars

\* UpdateCreated written as the right operand of a short-circuit ||: it is
\* skipped when the assigned collection changed.
UpdateCreatedShortCircuit ==
    /\ pc = "updateCreated"
    /\ IF haveUpdatedAssignations
       THEN /\ UNCHANGED <<created, createdChecker, haveUpdatedCreations, wroteC>>
            /\ pc' = "sendNewData"
       ELSE /\ created' = fetchedC
            /\ wroteC' = tick
            /\ LET r == HasChanged(createdChecker, VersionKeys(fetchedC))
               IN  /\ haveUpdatedCreations' = r.changed
                   /\ createdChecker' = r.checker
                   /\ pc' = IF r.changed THEN "sendNewData" ELSE "unlock"
    /\ UNCHANGED <<cancelled, locked, now, tick, assigned, assignedChecker, fetchedA,
                   fetchedC, haveUpdatedAssignations, wroteA, tsSent, dataSent,
                   fetchFailed, detailFailed, sameAsPrev>>
    /\ UNCHANGED dispatchVars
    /\ UNCHANGED unitVars

\* haveUpdatedCreations := poller.CreatedPullRequests.Update(created), and the
\* test of the two results that follows it.
UpdateCreated ==
    /\ pc = "updateCreated"
    /\ created' = fetchedC
    /\ LET r == HasChanged(createdChecker, VersionKeys(fetchedC))
       IN  /\ haveUpdatedCreations' = r.changed
           /\ createdChecker' = r.checker
           /\ pc' = IF haveUpdatedAssignations \/ r.changed THEN "sendNewData" ELSE "unlock"
    /\ wroteC' = tick
    /\ UNCHANGED <<cancelled, locked, now, tick, assigned, assignedChecker, fetchedA,
                   fetchedC, haveUpdatedAssignations, wroteA, tsSent, dataSent,
                   fetchFailed, detailFailed, sameAsPrev>>
    /\ UNCHANGED dispatchVars
    /\ UNCHANGED unitVars

\* poller.Unlock(), end of the case: the locals go out of scope.
Unlock ==
    /\ pc = "unlock"
    /\ locked' = FALSE
    /\ pc' = "select"
    /\ fetchedA' = <<>>
    /\ fetchedC' = <<>>
    /\ haveUpdatedAssignations' = FALSE
    /\ haveUpdatedCreations' = FALSE
    /\ UNCHANGED <<cancelled, now, tick, assigned, created, assignedChecker,
                   createdChecker, wroteA, wroteC, tsSent, dataSent,
                   fetchFailed, detailFailed, sameAsPrev>>
    /\ UNCHANGED dispatchVars
    /\ UNCHANGED unitVars

\* ------------------------------------------------------------- Controller
\* Controller.Update: the queued function.
ControllerUpdate(st) ==
    /\ assignedPRTable' =
          LET t1 == IF Len(st.Assigned) > 0 THEN TableUpdate(assignedPRTable, st.Assigned)
                    ELSE assignedPRTable
          IN  IF Len(st.Created) > 0 THEN TableUpdate(t1, st.Created) ELSE t1
    /\ createdPRTable' = createdPRTable
    /\ statusBar' = st.LastSync

\* ------------------------------------------------- dispatch loop of app()
\* RecvTimestamp over a buffered channel: the send does not wait for the loop.
SendTimestampBuffered ==
    /\ Alive
    /\ pc = "sendTimestamp"
    /\ pc' = "lock"
    /\ tsSent' = tsSent + 1
    /\ UNCHANGED <<cancelled, locked, now, tick, assigned, created, assignedChecker,
                   createdChecker, fetchedA, fetchedC, haveUpdatedAssignations,
                   haveUpdatedCreations, wroteA, wroteC, dataSent,
                   fetchFailed, detailFailed, sameAsPrev>>
    /\ UNCHANGED dispatchVars
    /\ UNCHANGED unitVars

\* notificationChannels.LatestPollTimestamp <- time.Now() meets
\* case latestTimestamp := <-notifyChans.LatestPollTimestamp.
RecvTimestamp ==
    /\ Alive
    /\ pc = "sendTimestamp"
    /\ dispatch = "select"
    /\ pc' = "lock"
    /\ tsSent' = tsSent + 1
    /\ ControllerUpdate([EmptyState EXCEPT !.LastSync = now])
    /\ UNCHANGED <<cancelled, locked, now, tick, assigned, created, assignedChecker,
                   createdChecker, fetchedA, fetchedC, haveUpdatedAssignations,
                   haveUpdatedCreations, wroteA, wroteC, dataSent,
                   fetchFailed, detailFailed, sameAsPrev>>
    /\ UNCHANGED <<dispatch, newState, readA, readC, sigTick>>
    /\ UNCHANGED unitVars

\* notificationChannels.NewDataAvailable <- struct{}{} meets
\* case <-notifyChans.NewDataAvailable.
RecvNewData ==
    /\ Alive
    /\ pc = "sendNewData"
    /\ dispatch = "select"
    /\ pc' = "unlock"
    /\ dataSent' = dataSent + 1
    /\ dispatch' = "readAssigned"
    /\ sigTick' = tick
    /\ newState' = EmptyState
    /\ UNCHANGED <<cancelled, locked, now, tick, assigned, created, assignedChecker,
                   createdChecker, fetchedA, fetchedC, haveUpdatedAssignations,
                   haveUpdatedCreations, wroteA, wroteC, tsSent,
                   fetchFailed, detailFailed, sameAsPrev>>
    /\ UNCHANGED <<assignedPRTable, createdPRTable, statusBar, readA, readC>>
    /\ UNCHANGED unitVars

\* Assigned: ghPoller.AssignedPullRequests.Items
ReadAssigned ==
    /\ Alive
    /\ dispatch = "readAssigned"
    /\ newState' = [newState EXCEPT !.Assigned = assigned]
    /\ readA' = wroteA
    /\ dispatch' = "readCreated"
    /\ UNCHANGED <<assignedPRTable, createdPRTable, statusBar, readC, sigTick>>
    /\ UNCHANGED cancelled
    /\ UNCHANGED pollerVars
    /\ UNCHANGED unitVars

\* Created: ghPoller.CreatedPullRequests.Items
ReadCreated ==
    /\ Alive
    /\ dispatch = "readCreated"
    /\ newState' = [newState EXCEPT !.Created = created]
    /\ readC' = wroteC
    /\ dispatch' = "update"
    /\ UNCHANGED <<assignedPRTable, createdPRTable, statusBar, readA, sigTick>>
    /\ UNCHANGED cancelled
    /\ UNCHANGED pollerVars
    /\ UNCHANGED unitVars

\* tuiController.Update(&tui.State{Assigned: ..., Created: ...}); the loop
\* goes back to its select and the State is dropped.
UpdateFromNewData ==
    /\ Alive
    /\ dispatch = "update"
    /\ ControllerUpdate(newState)
    /\ newState' = EmptyState
    /\ readA' = 0
    /\ readC' = 0
    /\ sigTick' = 0
    /\ dispatch' = "select"
    /\ UNCHANGED cancelled
    /\ UNCHANGED pollerVars
    /\ UNCHANGED unitVars

\* case <-ctx.Done(): return
DispatchCtxDone ==
    /\ Alive
    /\ dispatch = "select"
    /\ cancelled
    /\ dispatch' = "returned"
    /\ UNCHANGED <<newState, assignedPRTable, createdPRTable, statusBar, readA, readC, sigTick>>
    /\ UNCHANGED cancelled
    /\ UNCHANGED pollerVars
    /\ UNCHANGED unitVars

\* ghPoller.Poll(...) has returned and the goroutine of app() reaches its loop.
DispatchLoopEntered ==
    /\ dispatch = "inPoll"
    /\ pc = "returned"
    /\ dispatch' = "select"
    /\ UNCHANGED <<newState, assignedPRTable, createdPRTable, statusBar, readA, readC, sigTick>>
    /\ UNCHANGED cancelled
    /\ UNCHANGED pollerVars
    /\ UNCHANGED unitVars

\* stopper(): the shared context is cancelled.
Cancel ==
    /\ Alive
    /\ ~cancelled
    /\ cancelled' = TRUE
    /\ UNCHANGED pollerVars
    /\ UNCHANGED dispatchVars
    /\ UNCHANGED unitVars

PollerStep ==
    \/ PollCalled
    \/ TimerElapsed
    \/ PollCtxDone
    \/ GetAssigned
    \/ GetCreated
    \/ ListFails
    \/ Lock
    \/ UpdateAssigned
    \/ UpdateCreated
    \/ Unlock

DispatchStep ==
    \/ RecvTimestamp
    \/ RecvNewData
    \/ ReadAssigned
    \/ ReadCreated
    \/ UpdateFromNewData
    \/ DispatchCtxDone

Next == PollerStep \/ DispatchStep \/ Cancel

Spec == Init /\ [][Next]_vars

\* The goroutines are scheduled fairly; nothing obliges anyone to cancel.
FairSpec == Spec /\ WF_vars(PollerStep) /\ WF_vars(DispatchStep)

\* app() as written: Poll is called by the goroutine that holds the loop.
AppInit == InitWith("inPoll")

AppPollerStep ==
    \/ PollCalled
    \/ TimerElapsed
    \/ PollCtxDone
    \/ GetAssigned
    \/ GetCreated
    \/ ListFails

AppDispatchStep ==
    \/ DispatchLoopEntered
    \/ DispatchCtxDone

AppNext == AppPollerStep \/ AppDispatchStep \/ Cancel

AppSpec == AppInit /\ [][AppNext]_vars

FairAppSpec == AppSpec /\ WF_vars(AppPollerStep) /\ WF_vars(AppDispatchStep)

\* ------------------------------------------- the same Poller, retitled PRs
\* The created filter can also return PRMine with another title.
RetitleAssignedPool == {PROpen}
RetitleCreatedPool == {PRMine, PRMineRetitled}

RetitleInit ==
    /\ PollerInit("select", RetitleAssignedPool, RetitleCreatedPool)
    /\ CheckerRest
    /\ KeyRest
    /\ TableRest

RetitlePollerStep ==
    \/ PollCalled
    \/ TimerElapsed
    \/ PollCtxDone
    \/ GetAssignedFrom(RetitleAssignedPool)
    \/ GetCreatedFrom(RetitleCreatedPool)
    \/ ListFails
    \/ Lock
    \/ UpdateAssigned
    \/ UpdateCreated
    \/ Unlock

RetitleNext == RetitlePollerStep \/ DispatchStep \/ Cancel

RetitleSpec == RetitleInit /\ [][RetitleNext]_vars

\* ------------------------------------------------ a ChangeChecker on its own
\* Longest key list given to a ChangeChecker, and HasChanged calls made on it.
MaxKeys == 3
MaxCalls == 2

KeyLists == SeqsUpTo({"k1", "k2"}, MaxKeys)

\* NewChangeChecker(items, gen) for any items and any generator.
CheckerInit ==
    /\ PollerInit("select", {}, {})
    /\ KeyRest
    /\ TableRest
    /\ gen \in KeyCheckerGens
    /\ baseKeys \in KeyLists
    /\ checker = NewChangeChecker(baseKeys, gen)
    /\ argKeys = <<>>
    /\ changed = FALSE
    /\ calls = 0

\* checker.HasChanged(items) for any items.
CallHasChanged ==
    /\ calls < MaxCalls
    /\ \E keyList \in KeyLists :
          LET r == HasChanged(checker, keyList)
          IN  /\ argKeys' = keyList
              /\ changed' = r.changed
              /\ checker' = r.checker
    /\ calls' = calls + 1
    /\ UNCHANGED <<gen, baseKeys>>
    /\ UNCHANGED keyVars
    /\ UNCHANGED tableVars
    /\ UNCHANGED cancelled
    /\ UNCHANGED pollerVars
    /\ UNCHANGED dispatchVars

CheckerNext == CallHasChanged

CheckerSpec == CheckerInit /\ [][CheckerNext]_vars

\* ----------------------------------------------------- versionKey on its own
\* Field values with and without the separator of the key format.
Plain == {"a", "a1", "1", "11", "open", "merged"}
WithSeparator == {"a:1", "1:1"}

Summaries ==
    {PullRequestSummary(r, i, st, d, t) :
        r \in {"a", "a1", "a:1"}, i \in {"1", "11", "1:1"}, st \in {"open", "merged"},
        d \in BOOLEAN, t \in {"t", "u"}}

KeyInit ==
    /\ PollerInit("select", {}, {})
    /\ CheckerRest
    /\ TableRest
    /\ prP \in Summaries
    /\ prQ \in Summaries
    /\ keyP = ""
    /\ keyQ = ""

\* item.versionKey() for both.
DeriveKeys ==
    /\ keyP = ""
    /\ keyP' = versionKey(prP)
    /\ keyQ' = versionKey(prQ)
    /\ UNCHANGED <<prP, prQ>>
    /\ UNCHANGED checkerVars
    /\ UNCHANGED tableVars
    /\ UNCHANGED cancelled
    /\ UNCHANGED pollerVars
    /\ UNCHANGED dispatchVars

KeyNext == DeriveKeys

KeySpec == KeyInit /\ [][KeyNext]_vars

\* --------------------------------------------------------- a Table on its own
\* Longest RowCollection given to a Table.
MaxRows == 3

RowLists == SeqsUpTo(AssignedPool \cup CreatedPool, MaxRows)

\* NewTable(title, rows): a fresh tview.Table, then t.Update(rows).
TableInit ==
    /\ PollerInit("select", {}, {})
    /\ CheckerRest
    /\ KeyRest
    /\ rowCollection \in RowLists
    /\ primitive = TableUpdate(<<>>, rowCollection)

\* t.Update(rows) for any RowCollection.
CallTableUpdate ==
    /\ \E r \in RowLists :
          /\ rowCollection' = r
          /\ primitive' = TableUpdate(primitive, r)
    /\ UNCHANGED checkerVars
    /\ UNCHANGED keyVars
    /\ UNCHANGED cancelled
    /\ UNCHANGED pollerVars
    /\ UNCHANGED dispatchVars

TableNext == CallTableUpdate

TableSpec == TableInit /\ [][TableNext]_vars

TypeOK ==
    /\ pc \in {"new", "select", "getAssigned", "getCreated", "sendTimestamp", "lock",
               "updateAssigned", "updateCreated", "sendNewData", "unlock",
               "returned", "panicked"}
    /\ dispatch \in {"inPoll", "select", "readAssigned", "readCreated", "update", "returned"}
    /\ assigned \in SeqsUpTo(AssignedPool \cup RetitleAssignedPool, MaxLen)
    /\ created \in SeqsUpTo(CreatedPool \cup RetitleCreatedPool, MaxLen)
    /\ tick \in 0..MaxTicks
    /\ gen \in KeyCheckerGens
    /\ calls \in 0..MaxCalls
    /\ changed \in BOOLEAN

\* ------------------------------------------------------------------ claims
SendPositions == {"sendTimestamp", "sendNewData"}
InCriticalSection == {"updateAssigned", "updateCreated", "sendNewData", "unlock"}

\* C1: an Update whose entities have the VersionKeys of the entities held
\* returns "unchanged", for either collection and after any earlier Updates.
C1_SameKeysUnchanged ==
    [][/\ (pc = "updateAssigned" /\ pc' = "updateCreated"
            /\ VersionKeys(fetchedA) = VersionKeys(assigned))
          => ~haveUpdatedAssignations'
       /\ (pc = "updateCreated" /\ pc' \in {"sendNewData", "unlock"}
            /\ VersionKeys(fetchedC) = VersionKeys(created))
          => ~haveUpdatedCreations']_vars

\* C2: the Poller is never sending the changed-data signal in a tick whose
\* two fetched key lists equal those of the preceding fetch.
C2_SignalOnlyOnChange ==
    (pc = "sendNewData" \/ dataSent > 0) => ~sameAsPrev

\* C3: in the application, while the context is not cancelled, a Poller
\* parked on a channel send is eventually released by the dispatch loop.
C3_SendEventuallyReceived ==
    (pc \in SendPositions /\ ~cancelled) ~> (pc \notin SendPositions \/ cancelled)

\* C4: when the changed-data handler has read both collections, both were
\* written by the tick that sent the signal.
C4_SameTickSnapshot ==
    dispatch = "update" => (readA = sigTick /\ readC = sigTick)

\* the handler holds its snapshot of tick 1 while the Poller has already
\* fetched for tick 2 and waits to hand over the timestamp
C4_Witness ==
    /\ dispatch = "update"
    /\ sigTick = 1
    /\ tick = 2
    /\ pc = "sendTimestamp"

\* C5: once the context is done and the Poller is at its select, the loop
\* can only return: no further tick starts and no notification is delivered;
\* a Poll that returned stays returned.
C5_CancelWhileIdle ==
    [][((cancelled /\ pc = "select") \/ pc = "returned")
          => /\ pc' \in {pc, "returned"}
             /\ UNCHANGED <<tick, tsSent, dataSent>>]_vars

\* Poll returned on cancellation after a tick that delivered both signals
C5_Witness ==
    /\ pc = "returned"
    /\ cancelled
    /\ tick > 0
    /\ dataSent = 1

\* C6: after the context is cancelled, Poll eventually returns (or the
\* process has died), wherever the Poller was.
C6_CancelStopsPoll ==
    cancelled ~> (pc \in {"returned", "panicked"})

\* C7: per tick the timestamp is delivered exactly once when the fetch
\* completed, the changed-data signal at most once and never before the
\* timestamp.
C7_TimestampOncePerTick ==
    /\ tsSent <= 1
    /\ dataSent <= 1
    /\ dataSent = 1 => tsSent = 1
    /\ pc \in {"getAssigned", "getCreated", "sendTimestamp"} => (tsSent = 0 /\ dataSent = 0)
    /\ pc \in ({"lock"} \cup InCriticalSection) => tsSent = 1
    /\ pc \in {"updateAssigned", "updateCreated", "sendNewData"} => dataSent = 0
    /\ (pc \in {"select", "returned"} /\ tick > 0) => tsSent = 1

\* a second tick completed with both notifications delivered
C7_Witness ==
    /\ pc = "select"
    /\ tick = 2
    /\ tsSent = 1
    /\ dataSent = 1

\* C8: when Issues.List fails in a tick, that tick delivers no notification,
\* the Poller is parked on no send, and both collections and both
\* ChangeCheckers are left as they were, from the failure on.
C8_FailedTickSilent ==
    [][fetchFailed'
          => /\ tsSent' = 0
             /\ dataSent' = 0
             /\ pc' \notin SendPositions
             /\ UNCHANGED <<assigned, created, assignedChecker, createdChecker>>]_vars

\* the list call failed in the second tick, after a first tick that went through
C8_Witness ==
    /\ fetchFailed
    /\ pc = "panicked"
    /\ tick = 2
    /\ wroteA = 1

\* C9: a tick in which a detail call failed does not go past its fetch: no
\* timestamp, no Update, no changed-data signal.
C9_NoPartialList ==
    detailFailed => pc \in {"getAssigned", "getCreated", "panicked"}

\* C10: an Update that replaces N>0 held entities by none returns "changed".
C10_EmptiedIsChanged ==
    [][/\ (pc = "updateAssigned" /\ pc' = "updateCreated"
            /\ Len(assigned) > 0 /\ Len(fetchedA) = 0)
          => haveUpdatedAssignations'
       /\ (pc = "updateCreated" /\ pc' \in {"sendNewData", "unlock"}
            /\ Len(created) > 0 /\ Len(fetchedC) = 0)
          => haveUpdatedCreations']_vars

\* How often key k occurs in the list s, and the keys of s.
Occurrences(s, k) == Cardinality({i \in 1..Len(s) : s[i] = k})
SameMultiset(s, t) == \A k \in {"k1", "k2"} : Occurrences(s, k) = Occurrences(t, k)
IsCall == calls' = calls + 1

\* C11: a default detector whose baseline is A reports B "unchanged" exactly
\* when B is as long as A and every key of B occurs in A; so it does whenever
\* B holds the same multiset of keys as A.
C11_DefaultOrderInsensitive ==
    [][(IsCall /\ checker.genKeyChecker = "DEFAULT_KEY_CHECKER")
          => LET A == checker.keyChecker.keyList
                 B == argKeys'
             IN  /\ SameMultiset(A, B) => ~changed'
                 /\ ~changed' <=> /\ Len(B) = Len(A)
                                  /\ \A i \in 1..Len(B) : \E j \in 1..Len(A) : B[i] = A[j]]_vars

\* a reordered list was reported unchanged by a default detector
C11_Witness ==
    /\ calls > 0
    /\ checker.genKeyChecker = "DEFAULT_KEY_CHECKER"
    /\ baseKeys = <<"k1", "k2", "k1">>
    /\ argKeys = <<"k2", "k1", "k1">>
    /\ ~changed

\* C12: an order-sensitive detector whose baseline is A reports B "unchanged"
\* exactly when B is as long as A and equal to it at every position; so a
\* reordering of A that differs from A is "changed".
C12_SimpleOrderSensitive ==
    [][(IsCall /\ checker.genKeyChecker = "SIMPLE_KEY_CHECKER")
          => LET A == checker.keyChecker.keylist
                 B == argKeys'
             IN  /\ ~changed' <=> /\ Len(B) = Len(A)
                                  /\ \A i \in 1..Len(A) : A[i] = B[i]
                 /\ (SameMultiset(A, B) /\ A # B) => changed']_vars

\* a reordered list was reported changed by an order-sensitive detector
C12_Witness ==
    /\ calls > 0
    /\ gen = "SIMPLE_KEY_CHECKER"
    /\ baseKeys = <<"k1", "k2", "k1">>
    /\ argKeys = <<"k2", "k1", "k1">>
    /\ changed

\* Two summaries, or two lists of them, that agree on the fields of the key.
SameKeyFields(p, q) ==
    /\ p.Repository = q.Repository
    /\ p.ID = q.ID
    /\ p.Status = q.Status
    /\ p.Draft = q.Draft
SameKeyFieldsAll(xs, ys) ==
    /\ Len(xs) = Len(ys)
    /\ \A i \in 1..Len(xs) : SameKeyFields(xs[i], ys[i])

\* C13: entities that agree on repository, id, status and draft have the
\* same key, so a tick that fetched the keys of the previous fetch, with
\* only other fields of the created entities edited, sends no changed-data
\* signal.
C13_VolatileFieldsIgnored ==
    [][(/\ pc = "updateCreated"
        /\ pc' \in {"sendNewData", "unlock"}
        /\ sameAsPrev
        /\ SameKeyFieldsAll(fetchedC, created)
        /\ fetchedC # created)
          => /\ VersionKeys(fetchedC) = VersionKeys(created)
             /\ pc' = "unlock"]_vars

KeysDerived == keyP # ""
PlainFields(p) == p.Repository \in Plain /\ p.ID \in Plain /\ p.Status \in Plain

\* C14 as claimed: two summaries that differ in repository, id, status or
\* draft have different keys, whatever strings the fields hold.
C14_NoCollision ==
    (KeysDerived /\ ~SameKeyFields(prP, prQ)) => keyP # keyQ

\* C14 as amended: two summaries whose repository, id and status hold no ':'
\* and that differ in repository, id, status or draft have different keys.
C14_NoCollisionPlain ==
    (KeysDerived /\ PlainFields(prP) /\ PlainFields(prQ) /\ ~SameKeyFields(prP, prQ))
        => keyP # keyQ

\* a/11 and a1/1 are told apart by the separator
C14_Witness ==
    /\ KeysDerived
    /\ prP.Repository = "a" /\ prP.ID = "11"
    /\ prQ.Repository = "a1" /\ prQ.ID = "1"
    /\ prP.Status = prQ.Status /\ prP.Draft = prQ.Draft
    /\ keyP # keyQ

\* The two handlers of the dispatch loop, as steps.
TimestampHandled == pc = "sendTimestamp" /\ pc' = "lock"
NewDataHandled == dispatch = "update" /\ dispatch' = "select"
Shows(table, rows) == Len(table) >= Len(rows) /\ SubSeq(table, 1, Len(rows)) = rows

\* C15: a field absent from the State given to Controller.Update leaves its
\* render target alone: the timestamp State leaves both tables as they were,
\* the changed-data State leaves the status bar at the last timestamp.
C15_AbsentFieldKept ==
    [][/\ TimestampHandled => UNCHANGED <<assignedPRTable, createdPRTable>>
       /\ NewDataHandled => statusBar' = statusBar]_vars

\* C16: after a changed-data State with both lists non-empty is applied, the
\* assigned table shows the Assigned entities and the created table the
\* Created entities.
C16_RoutedToOwnTable ==
    [][(NewDataHandled /\ Len(newState.Assigned) > 0 /\ Len(newState.Created) > 0)
          => /\ Shows(assignedPRTable', newState.Assigned)
             /\ Shows(createdPRTable', newState.Created)]_vars

\* "Equal under the order-insensitive policy", said without the closure.
MatchesDefault(A, B) ==
    /\ Len(B) = Len(A)
    /\ \A i \in 1..Len(B) : \E j \in 1..Len(A) : B[i] = A[j]

\* C17: the first Update of either collection after construction returns
\* "unchanged" exactly when the new keys equal, under the default policy,
\* the keys of the items the collection was constructed with.
C17_FirstUpdateAgainstSnapshot ==
    [][/\ (tick = 1 /\ pc = "updateAssigned" /\ pc' = "updateCreated")
          => (~haveUpdatedAssignations'
                <=> MatchesDefault(VersionKeys(assigned), VersionKeys(fetchedA)))
       /\ (tick = 1 /\ pc = "updateCreated" /\ pc' \in {"sendNewData", "unlock"})
          => (~haveUpdatedCreations'
                <=> MatchesDefault(VersionKeys(created), VersionKeys(fetchedC)))]_vars

\* the first Update, given the non-empty items of construction again,
\* returned unchanged
C17_Witness ==
    /\ tick = 1
    /\ pc = "updateCreated"
    /\ Len(assigned) > 0
    /\ VersionKeys(assigned) = assignedChecker.keyChecker.keyList
    /\ ~haveUpdatedAssignations

\* C18: a ChangeChecker made with a nil generator holds the default
\* generator and a closure of it over the items' keys, and whenever
\* HasChanged regenerates, it makes a default closure over the new keys.
C18_NilGeneratorDefaults ==
    gen = "nil"
        => /\ checker.genKeyChecker = "DEFAULT_KEY_CHECKER"
           /\ "keyPresentMap" \in DOMAIN checker.keyChecker
           /\ calls = 0 => checker.keyChecker = DEFAULT_KEY_CHECKER(baseKeys)
           /\ \A keyList \in KeyLists :
                 LET r == HasChanged(checker, keyList)
                 IN  r.changed => r.local.keyChecker = DEFAULT_KEY_CHECKER(keyList)

\* a checker made with nil has answered twice, the last time "changed"
C18_Witness ==
    /\ gen = "nil"
    /\ Len(baseKeys) = 2
    /\ calls = 2
    /\ changed

\* C19: the mutex is held exactly from Lock to Unlock, through both Updates
\* and the changed-data send; both collections have been written by the
\* current tick when the Updates are over, and also when the Poller is back
\* at its select.
C19_UpdatesUnderLock ==
    /\ locked <=> pc \in InCriticalSection
    /\ pc \in {"sendNewData", "unlock"} => (wroteA = tick /\ wroteC = tick)
    /\ (pc = "select" /\ tick > 0) => (wroteA = tick /\ wroteC = tick)

\* parked on the changed-data send of the second tick, mutex held
C19_Witness ==
    /\ pc = "sendNewData"
    /\ locked
    /\ tick = 2
    /\ wroteC = 2

\* C20: until a tick's timestamp has been received, both collections hold
\* what the previous tick wrote; so they do at the moment of the receipt.
C20_WritesAfterTimestamp ==
    /\ (tick > 0 /\ tsSent = 0) => (wroteA = tick - 1 /\ wroteC = tick - 1)
    /\ pc = "lock" => (wroteA = tick - 1 /\ wroteC = tick - 1)

\* the second tick's timestamp has just been received
C20_Witness ==
    /\ pc = "lock"
    /\ tick = 2
    /\ tsSent = 1
    /\ wroteA = 1

\* C21: Update stores the submitted sequence whatever the verdict: after it
\* the collection's Items are the fetched ones and VersionKeys() gives their
\* keys in their order; no other step, HasChanged included, writes Items.
C21_UpdateReplaces ==
    [][/\ (pc = "updateAssigned" /\ pc' = "updateCreated")
          => /\ assigned' = fetchedA
             /\ VersionKeys(assigned') = [i \in 1..Len(fetchedA) |-> versionKey(fetchedA[i])]
       /\ (pc = "updateCreated" /\ pc' \in {"sendNewData", "unlock"})
          => /\ created' = fetchedC
             /\ VersionKeys(created') = [i \in 1..Len(fetchedC) |-> versionKey(fetchedC[i])]
       /\ assigned' # assigned => pc = "updateAssigned"
       /\ created' # created => pc = "updateCreated"]_vars

\* the second tick's Update answered "unchanged" and holds the fetched items
C21_Witness ==
    /\ tick = 2
    /\ pc = "updateCreated"
    /\ ~haveUpdatedAssignations
    /\ Len(fetchedA) > 0
    /\ assigned = fetchedA

\* C22: after Table.Update(rows) the table holds, below its header, exactly
\* the rows of the given collection and none of its previous rows.
C22_UpdateClears == primitive = rowCollection

\* C23: when a changed-data notification is handled while the assigned
\* collection is empty and its table still shows rows, the Render State
\* carries the empty list and the table shows no rows afterwards.
C23_EmptiedNotShown ==
    [][(NewDataHandled /\ Len(assigned) = 0 /\ Len(assignedPRTable) > 0)
          => /\ newState.Assigned = assigned
             /\ assignedPRTable' = <<>>]_vars

NoDuplicates(s) == \A i, j \in 1..Len(s) : s[i] = s[j] => i = j
FirstDefaultCall == calls = 1 /\ gen \in {"nil", "DEFAULT_KEY_CHECKER"}
Reverse == HasChanged(NewChangeChecker(argKeys, gen), baseKeys)

\* C24: the default comparison is symmetric: the checker built from A says B
\* is unchanged exactly when the checker built from B says A is unchanged.
C24_DefaultSymmetric ==
    FirstDefaultCall => (changed <=> Reverse.changed)

\* C24, for key lists without duplicate keys.
C24_DefaultSymmetricNoDuplicates ==
    (FirstDefaultCall /\ NoDuplicates(baseKeys) /\ NoDuplicates(argKeys))
        => (changed <=> Reverse.changed)

\* two different duplicate-free lists that each checker calls unchanged
C24_Witness ==
    /\ FirstDefaultCall
    /\ NoDuplicates(baseKeys)
    /\ Len(baseKeys) = 2
    /\ argKeys # baseKeys
    /\ ~changed
    /\ ~Reverse.changed

\* C25: as long as Poll has not been called, both collections hold the first
\* fetch, each ChangeChecker is the default one over the keys of its
\* collection, no tick has happened and no notification has been sent.
C25_ReadyAndQuiet ==
    pc = "new"
        => /\ assignedChecker = [genKeyChecker |-> "DEFAULT_KEY_CHECKER",
                                 keyChecker |-> DEFAULT_KEY_CHECKER(VersionKeys(assigned))]
           /\ createdChecker = [genKeyChecker |-> "DEFAULT_KEY_CHECKER",
                                keyChecker |-> DEFAULT_KEY_CHECKER(VersionKeys(created))]
           /\ tick = 0 /\ tsSent = 0 /\ dataSent = 0
           /\ wroteA = 0 /\ wroteC = 0
           /\ fetchedA = <<>> /\ fetchedC = <<>>
           /\ ~locked
           /\ newState = EmptyState

\* the context was cancelled before Poll was called, on a non-empty Poller
C25_Witness ==
    /\ pc = "new"
    /\ cancelled
    /\ Len(assigned) > 0
    /\ Len(created) > 0

====
